---- MODULE Spec2Model ----
(***************************************************************************)
(* Authentication and request authorization of go-clean-boiler:            *)
(* authService.Register / authService.Login behind AuthHandler, the users  *)
(* table they share, and AuthMiddleware in front of the protected routes.  *)
(***************************************************************************)
EXTENDS Integers, Sequences, FiniteSets, TLC

\* ------------------------------------------------------------------ bounds
NumCalls == 2          \* auth requests (Register / Login) in one behaviour
NumReqs  == 2          \* requests sent through AuthMiddleware
MaxTime  == 2          \* the clock runs 0..MaxTime
MaxUsers == 2          \* rows the users table may come to hold
IntBits  == 10         \* width of Go's int in the model (64 on the build)

Procs == 1..NumCalls
Reqs  == 1..NumReqs

Emails    == {"a@x.com", "b@x.com"}
Passwords == {"secret1", "secret2"}
Names     == {"A"}
Salts     == {"salt1", "salt2"}

\* ------------------------------------------------------- values and errors
NoErr == "<nil>"                     \* a nil error
ErrRecordNotFound == "record not found"                 \* gorm.ErrRecordNotFound
ErrStore == "dial tcp 127.0.0.1:5432: connect: connection refused"
ErrDuplicateKey == "ERROR: duplicate key value violates unique constraint (SQLSTATE 23505)"
ErrHash == "bcrypt: password length exceeds 72 bytes"
ErrMismatch == "crypto/bcrypt: hashedPassword is not the hash of the given password"
ErrDuration == "time: invalid duration"
ErrEmailExists == "email already exists"
ErrInvalidCredentials == "invalid credentials"

\* texts of the errors raised below the service (store, hasher, token codec)
InternalErrors == {ErrStore, ErrDuplicateKey, ErrHash, ErrMismatch, ErrDuration,
                   ErrRecordNotFound}

Nil == [nil |-> TRUE]                \* a nil pointer / an absent value
BcryptDefaultCost == 10

StatusOK == 200
StatusCreated == 201
StatusBadRequest == 400
StatusNotFound == 404
StatusUnauthorized == 401

ErrUserNotFound == "user not found"
ErrSyntax == "strconv.Atoi: parsing: invalid syntax"          \* strconv.ErrSyntax
ErrRange == "strconv.Atoi: parsing: value out of range"       \* strconv.ErrRange
StatusInternalServerError == 500

JwtSecret == "your-secret-key-change-this-in-production"
OtherSecret == "another-secret"

VARIABLES
    store,        \* rows of the users table
    nextID,       \* next primary key the table hands out
    uniqueEmail,  \* whether the table carries a unique index on email
    jwtExpiry,    \* authService.jwtExpiry
    now,          \* wall clock
    pc,           \* per auth request: "idle", "create", "done"
    req,          \* per auth request: the bound request body and the operation
    lookup,       \* per auth request: the err FindByEmail returned
    user,         \* per auth request: the domain.User found or created
    result,       \* per auth request: what the service returned
    http,         \* per auth request: what the handler wrote
    pre,          \* per auth request: the table as it was when the call began
    steps,        \* per auth request: collaborators called, in order
    gate,         \* per protected request: the gin context after AuthMiddleware
    codec,        \* the token codec used on its own: the token issued, the last check
    ures,         \* what the last UserService call was and returned
    config        \* the process environment, the config file, the loaded Config

svars == <<store, nextID, uniqueEmail, jwtExpiry, pc, req, lookup, user, result,
           http, pre, steps>>
xvars == <<codec, ures, config>>
vars == <<svars, now, gate, xvars>>

\* ------------------------------------------------------------ users table
\* domain.User
User(id, email, password, name) ==
    [ID |-> id, Email |-> email, Password |-> password, Name |-> name,
     Deleted |-> FALSE]

Live(s) == {r \in s : ~r.Deleted}

\* userRepository.FindByEmail: WHERE email = ? ... First (lowest primary key)
FindByEmail(email) ==
    LET rows == {r \in Live(store) : r.Email = email}
    IN  IF rows = {}
        THEN [err |-> ErrRecordNotFound, user |-> Nil]
        ELSE [err |-> NoErr,
              user |-> CHOOSE r \in rows : \A o \in rows : r.ID <= o.ID]

\* what a lookup can return: its answer, or a failure of the database
FindByEmailOutcomes(email) ==
    {FindByEmail(email), [err |-> ErrStore, user |-> Nil]}

\* the unique index on users.email (when the table has one) covers every row
UniqueViolation(email) ==
    uniqueEmail /\ \E r \in store : r.Email = email

\* userRepository.Create: db.Create(user).Error
CreateOutcomes(u) ==
    {[err |-> ErrStore]} \cup
    {IF UniqueViolation(u.Email) THEN [err |-> ErrDuplicateKey]
                                 ELSE [err |-> NoErr]}

\* ------------------------------------------------------- credential hasher
Bcrypt(password, salt) ==
    [cost |-> BcryptDefaultCost, salt |-> salt, digest |-> <<salt, password>>]

\* bcrypt.GenerateFromPassword(password, bcrypt.DefaultCost)
GenerateFromPasswordOutcomes(password) ==
    {[err |-> NoErr, hash |-> Bcrypt(password, s)] : s \in Salts} \cup
    {[err |-> ErrHash, hash |-> Nil]}

\* bcrypt.CompareHashAndPassword(hash, password)
CompareHashAndPassword(hash, password) ==
    IF hash.digest = <<hash.salt, password>> THEN NoErr ELSE ErrMismatch

\* -------------------------------------------------------------- token codec
JwtExpiries == {"1s", "abc"}

\* jwt.ParseDuration
ParseDuration(s) ==
    CASE s = "0s" -> [err |-> NoErr, value |-> 0]
      [] s = "1s" -> [err |-> NoErr, value |-> 1]
      [] s = "2s" -> [err |-> NoErr, value |-> 2]
      [] OTHER    -> [err |-> ErrDuration, value |-> 0]

\* mutant: the email is left out of the claims
GenerateTokenNoEmail(userID, email, secret, duration) ==
    [err |-> NoErr,
     token |-> [UserID |-> userID, Email |-> "", IssuedAt |-> now,
                ExpiresAt |-> now + duration, key |-> secret]]

\* jwt.GenerateToken(userID, email, secret, duration): claims signed with secret
GenerateToken(userID, email, secret, duration) ==
    [err |-> NoErr,
     token |-> [UserID |-> userID, Email |-> email, IssuedAt |-> now,
                ExpiresAt |-> now + duration, key |-> secret]]

\* mutant: the token is bound to the ID the user had before Create set it
generateTokenStaleID(u) ==
    LET d == ParseDuration(jwtExpiry)
    IN  IF d.err # NoErr
        THEN [err |-> d.err, token |-> Nil]
        ELSE GenerateToken(0, u.Email, JwtSecret, d.value)

\* authService.generateToken
generateToken(u) ==
    LET d == ParseDuration(jwtExpiry)
    IN  IF d.err # NoErr
        THEN [err |-> d.err, token |-> Nil]
        ELSE GenerateToken(u.ID, u.Email, JwtSecret, d.value)

\* ------------------------------------------------------------ pkg/response
Response(status, success, message, data, error) ==
    [status |-> status, success |-> success, message |-> message,
     data |-> data, error |-> error]

Success(message, data) == Response(StatusOK, TRUE, message, data, Nil)
Created(message, data) == Response(StatusCreated, TRUE, message, data, Nil)
BadRequest(message, err) == Response(StatusBadRequest, FALSE, message, Nil, err)
NotFound(message) == Response(StatusNotFound, FALSE, message, Nil, Nil)
Unauthorized(message) == Response(StatusUnauthorized, FALSE, message, Nil, Nil)

\* --------------------------------------------------------- credential service
\* mutant: the response carries the stored password hash
UserResponseWithPassword(u) ==
    [ID |-> u.ID, Email |-> u.Email, Name |-> u.Name, Password |-> u.Password]

\* response.UserResponse (the timestamps are left out)
UserResponse(u) == [ID |-> u.ID, Email |-> u.Email, Name |-> u.Name]

\* mutant: the response is built without the token
AuthResponseNoToken(u, token) == [User |-> UserResponse(u), Token |-> Nil]

\* response.AuthResponse
AuthResponse(u, token) == [User |-> UserResponse(u), Token |-> token]

Fail(err) == [resp |-> Nil, err |-> err]
Ok(resp)  == [resp |-> resp, err |-> NoErr]

\* mutant: a found record no longer stops the registration
RegisterCheckNoDup(out) ==
    IF out.err \notin {NoErr, ErrRecordNotFound} THEN out.err ELSE NoErr

\* authService.Register, the existence check on FindByEmail's answer:
\* the error to return, or NoErr to go on
RegisterCheck(out) ==
    IF out.err = NoErr THEN ErrEmailExists
    ELSE IF out.err # ErrRecordNotFound THEN out.err
    ELSE NoErr

\* mutant: a failed Create is tried a second time
RegisterPersistedRetry(out, u) ==
    IF out.err # NoErr
    THEN [res |-> Fail(out.err), steps |-> <<"Create", "Create">>]
    ELSE LET tok == generateToken(u)
         IN  [res |-> IF tok.err # NoErr THEN Fail(tok.err)
                      ELSE Ok(AuthResponse(u, tok.token)),
              steps |-> <<"Create", "generateToken">>]

\* mutant: Create's error is dropped and the token is issued all the same
RegisterPersistedIgnoreErr(out, u) ==
    LET tok == generateToken(u)
    IN  [res |-> IF tok.err # NoErr THEN Fail(tok.err)
                 ELSE Ok(AuthResponse(u, tok.token)),
         steps |-> <<"Create", "generateToken">>]

\* authService.Register after Create answered out for u: the return value and
\* the collaborators called
RegisterPersisted(out, u) ==
    IF out.err # NoErr
    THEN [res |-> Fail(out.err), steps |-> <<"Create">>]
    ELSE LET tok == generateToken(u)
         IN  [res |-> IF tok.err # NoErr THEN Fail(tok.err)
                      ELSE Ok(AuthResponse(u, tok.token)),
              steps |-> <<"Create", "generateToken">>]

\* mutant: an unknown email is reported as such
LoginLeaky(out, password) ==
    IF out.err # NoErr
    THEN [res |-> IF out.err = ErrRecordNotFound THEN Fail("user not found")
                  ELSE Fail(out.err),
          steps |-> <<>>]
    ELSE IF CompareHashAndPassword(out.user.Password, password) # NoErr
    THEN [res |-> Fail(ErrInvalidCredentials),
          steps |-> <<"CompareHashAndPassword">>]
    ELSE LET tok == generateToken(out.user)
         IN  [res |-> IF tok.err # NoErr THEN Fail(tok.err)
                      ELSE Ok(AuthResponse(out.user, tok.token)),
              steps |-> <<"CompareHashAndPassword", "generateToken">>]

\* mutant: the password is not verified
LoginNoVerify(out, password) ==
    IF out.err # NoErr
    THEN [res |-> IF out.err = ErrRecordNotFound THEN Fail(ErrInvalidCredentials)
                  ELSE Fail(out.err),
          steps |-> <<>>]
    ELSE LET tok == generateToken(out.user)
         IN  [res |-> IF tok.err # NoErr THEN Fail(tok.err)
                      ELSE Ok(AuthResponse(out.user, tok.token)),
              steps |-> <<"generateToken">>]

\* authService.Login on FindByEmail's answer out: the return value and the
\* collaborators called after the lookup
Login(out, password) ==
    IF out.err # NoErr
    THEN [res |-> IF out.err = ErrRecordNotFound THEN Fail(ErrInvalidCredentials)
                  ELSE Fail(out.err),
          steps |-> <<>>]
    ELSE IF CompareHashAndPassword(out.user.Password, password) # NoErr
    THEN [res |-> Fail(ErrInvalidCredentials),
          steps |-> <<"CompareHashAndPassword">>]
    ELSE LET tok == generateToken(out.user)
         IN  [res |-> IF tok.err # NoErr THEN Fail(tok.err)
                      ELSE Ok(AuthResponse(out.user, tok.token)),
              steps |-> <<"CompareHashAndPassword", "generateToken">>]

\* ------------------------------------------------------------- AuthHandler
\* AuthHandler.Register after the service returned res
RegisterRespond(res) ==
    IF res.err # NoErr THEN BadRequest(res.err, Nil)
    ELSE Created("User registered successfully", res.resp)

\* AuthHandler.Login after the service returned res
LoginRespond(res) ==
    IF res.err # NoErr THEN BadRequest(res.err, Nil)
    ELSE Success("Login successful", res.resp)

\* validator.BindAndValidate when it refuses the body
BindAndValidateReject(why) ==
    IF why = "malformed"
    THEN BadRequest("Invalid request body", [detail |-> "json"])
    ELSE BadRequest("Validation failed", [detail |-> "fields"])

Return(p, res, w) ==
    /\ result' = [result EXCEPT ![p] = res]
    /\ http' = [http EXCEPT ![p] = w]
    /\ pc' = [pc EXCEPT ![p] = "done"]

Called(p, names) == steps' = [steps EXCEPT ![p] = steps[p] \o names]

\* AuthHandler.Register / AuthHandler.Login: BindAndValidate refuses the body,
\* the service is not called
HandlerReject(p) ==
    /\ pc[p] = "idle"
    /\ \E op \in {"Register", "Login"}, why \in {"malformed", "invalid"} :
         /\ req' = [req EXCEPT ![p] = [op |-> op, Email |-> "", Password |-> "",
                                       Name |-> "", valid |-> FALSE]]
         /\ Return(p, Nil, BindAndValidateReject(why))
    /\ pre' = [pre EXCEPT ![p] = store]
    /\ UNCHANGED <<store, nextID, uniqueEmail, jwtExpiry, lookup, user, steps, now,
                   gate, xvars>>

\* AuthHandler.Register -> authService.Register, from the bound request to the
\* hashed password: FindByEmail, the existence check, GenerateFromPassword
RegisterFindByEmail(p) ==
    /\ pc[p] = "idle"
    /\ \E e \in Emails, pw \in Passwords, n \in Names :
         /\ req' = [req EXCEPT ![p] = [op |-> "Register", Email |-> e,
                                       Password |-> pw, Name |-> n, valid |-> TRUE]]
         /\ \E out \in FindByEmailOutcomes(e) :
              /\ lookup' = [lookup EXCEPT ![p] = out.err]
              /\ IF RegisterCheck(out) # NoErr
                 THEN /\ Return(p, Fail(RegisterCheck(out)),
                                RegisterRespond(Fail(RegisterCheck(out))))
                      /\ Called(p, <<"FindByEmail">>)
                      /\ UNCHANGED user
                 ELSE \E h \in GenerateFromPasswordOutcomes(pw) :
                        /\ Called(p, <<"FindByEmail", "GenerateFromPassword">>)
                        /\ IF h.err # NoErr
                           THEN /\ Return(p, Fail(h.err), RegisterRespond(Fail(h.err)))
                                /\ UNCHANGED user
                           ELSE /\ user' = [user EXCEPT ![p] = User(0, e, h.hash, n)]
                                /\ pc' = [pc EXCEPT ![p] = "create"]
                                /\ UNCHANGED <<result, http>>
    /\ pre' = [pre EXCEPT ![p] = store]
    /\ UNCHANGED <<store, nextID, uniqueEmail, jwtExpiry, now, gate, xvars>>

\* authService.Register from Create on: Create, generateToken, the response
RegisterCreate(p) ==
    /\ pc[p] = "create"
    /\ \E out \in CreateOutcomes(user[p]) :
         LET u == IF out.err = NoErr THEN [user[p] EXCEPT !.ID = nextID]
                  ELSE user[p]
             r == RegisterPersisted(out, u)
         IN  /\ store' = IF out.err = NoErr THEN store \cup {u} ELSE store
             /\ nextID' = IF out.err = NoErr THEN nextID + 1 ELSE nextID
             /\ user' = [user EXCEPT ![p] = u]
             /\ Called(p, r.steps)
             /\ Return(p, r.res, RegisterRespond(r.res))
    /\ UNCHANGED <<uniqueEmail, jwtExpiry, req, lookup, pre, now, gate, xvars>>

\* AuthHandler.Login -> authService.Login
LoginCall(p) ==
    /\ pc[p] = "idle"
    /\ \E e \in Emails, pw \in Passwords :
         /\ req' = [req EXCEPT ![p] = [op |-> "Login", Email |-> e,
                                       Password |-> pw, Name |-> "", valid |-> TRUE]]
         /\ \E out \in FindByEmailOutcomes(e) :
              /\ lookup' = [lookup EXCEPT ![p] = out.err]
              /\ Return(p, Login(out, pw).res, LoginRespond(Login(out, pw).res))
              /\ Called(p, <<"FindByEmail">> \o Login(out, pw).steps)
              /\ user' = [user EXCEPT ![p] = out.user]
    /\ pre' = [pre EXCEPT ![p] = store]
    /\ UNCHANGED <<store, nextID, uniqueEmail, jwtExpiry, now, gate, xvars>>

\* ------------------------------------------------------------- request gate
\* A header value is a sequence of atoms: a word (a run of characters without
\* a space), a single space, or a signed token in its wire form.
W(word) == [w |-> word]
Sp == W(" ")
Wire(token) == [jwt |-> token]

ErrTokenMalformed == "token is malformed"
ErrTokenSignature == "signature is invalid"
ErrTokenExpired == "token is expired"

\* mutant: a token is still accepted at the instant of its expiry
ValidateTokenAtExpiry(token, secret) ==
    IF Len(token) # 1 \/ "jwt" \notin DOMAIN token[1]
    THEN [err |-> ErrTokenMalformed, claims |-> Nil]
    ELSE LET t == token[1].jwt
         IN  IF t.key # secret THEN [err |-> ErrTokenSignature, claims |-> Nil]
             ELSE IF ~(now <= t.ExpiresAt)
             THEN [err |-> ErrTokenExpired, claims |-> Nil]
             ELSE [err |-> NoErr, claims |-> t]

\* jwt.ValidateToken(token, secret): parse, check the signature, check expiry
ValidateToken(token, secret) ==
    IF Len(token) # 1 \/ "jwt" \notin DOMAIN token[1]
    THEN [err |-> ErrTokenMalformed, claims |-> Nil]
    ELSE LET t == token[1].jwt
         IN  IF t.key # secret THEN [err |-> ErrTokenSignature, claims |-> Nil]
             ELSE IF ~(now < t.ExpiresAt)
             THEN [err |-> ErrTokenExpired, claims |-> Nil]
             ELSE [err |-> NoErr, claims |-> t]

\* mutant: the header is cut at its last space
SplitAtLastSpace(s) ==
    IF \A i \in 1..Len(s) : s[i] # Sp
    THEN <<s>>
    ELSE LET i == CHOOSE k \in 1..Len(s) :
                      s[k] = Sp /\ \A j \in (k + 1)..Len(s) : s[j] # Sp
         IN  <<SubSeq(s, 1, i - 1), SubSeq(s, i + 1, Len(s))>>

\* strings.SplitN(s, " ", 2)
SplitN2(s) ==
    IF \A i \in 1..Len(s) : s[i] # Sp
    THEN <<s>>
    ELSE LET i == CHOOSE k \in 1..Len(s) :
                      s[k] = Sp /\ \A j \in 1..(k - 1) : s[j] # Sp
         IN  <<SubSeq(s, 1, i - 1), SubSeq(s, i + 1, Len(s))>>

\* mutant: any scheme is let through
BearerShapeAnyScheme(parts) == Len(parts) = 2

\* AuthMiddleware: the header has the shape "Bearer <token>"
BearerShape(parts) == Len(parts) = 2 /\ parts[1] = <<W("Bearer")>>

\* a value stored in the context as interface{}
Box(v) == [v |-> v]

NoKeys == [k \in {} |-> Nil]

\* the gin.Context of a request: its header, what was written, whether the
\* chain was aborted, the keys set, the tokens handed to ValidateToken and the
\* err it returned, when the middleware ran, and whether the route's handler
\* has run and which one
Context(header, resp, aborted, keys, verified, verr) ==
    [header |-> header, resp |-> resp, aborted |-> aborted, keys |-> keys,
     verified |-> verified, verr |-> verr, at |-> now,
     handled |-> FALSE, route |-> "none"]

Reject(header, message, verified, verr) ==
    Context(header, Unauthorized(message), TRUE, NoKeys, verified, verr)

\* mutant: the codec's error text is sent to the client
InvalidTokenLeaky(header, token, verr) ==
    Reject(header, verr, <<token>>, verr)

\* AuthMiddleware when ValidateToken returned an error
InvalidToken(header, token, verr) ==
    Reject(header, "Invalid or expired token", <<token>>, verr)

\* mutant: only the user ID is stored
IdentityKeysNoEmail(claims) ==
    [k \in {"user_id"} |-> Box(claims.UserID)]

\* AuthMiddleware: c.Set("user_id", claims.UserID); c.Set("user_email", claims.Email)
IdentityKeys(claims) ==
    [k \in {"user_id", "user_email"} |->
        IF k = "user_id" THEN Box(claims.UserID) ELSE Box(claims.Email)]

\* middleware.AuthMiddleware(jwtSecret) on a request with this Authorization
\* header, up to c.Abort() or c.Next()
AuthMiddleware(header, jwtSecret) ==
    IF header = <<>>
    THEN Reject(header, "Authorization header required", <<>>, NoErr)
    ELSE LET parts == SplitN2(header)
         IN  IF ~BearerShape(parts)
             THEN Reject(header, "Invalid authorization header format", <<>>, NoErr)
             ELSE LET v == ValidateToken(parts[2], jwtSecret)
                  IN  IF v.err # NoErr
                      THEN InvalidToken(header, parts[2], v.err)
                      ELSE Context(header, Nil, FALSE, IdentityKeys(v.claims),
                                   <<parts[2]>>, NoErr)

\* middleware.GetUserID
GetUserID(c) ==
    IF "user_id" \notin DOMAIN c.keys THEN <<0, FALSE>>
    ELSE <<c.keys["user_id"].v, TRUE>>

\* tokens a client may present
Tokens ==
    {[UserID |-> u.id, Email |-> u.email, IssuedAt |-> 0, ExpiresAt |-> x,
      key |-> k] :
        u \in {[id |-> 1, email |-> "a@x.com"], [id |-> 42, email |-> "b@x.com"]},
        x \in {1, MaxTime}, k \in {JwtSecret, OtherSecret}}

AToken == [UserID |-> 42, Email |-> "b@x.com", IssuedAt |-> 0,
           ExpiresAt |-> MaxTime, key |-> JwtSecret]

\* Authorization headers a client may send
Headers ==
    {<<>>,
     <<W("Token"), Sp, W("abc")>>,
     <<W("Bearer")>>,
     <<W("Bearer"), Sp>>,
     <<W("Bearer"), Sp, W("abc")>>,
     <<W("bearer"), Sp, Wire(AToken)>>,
     <<Wire(AToken)>>,
     <<W("Bearer"), Sp, Sp, Wire(AToken)>>,
     <<W("Bearer"), Sp, Wire(AToken), Sp, W("x")>>}
    \cup {<<W("Bearer"), Sp, Wire(t)>> : t \in Tokens}

\* the routes of the /api/v1/users group
UserRoutes == {"GET /users", "GET /users/:id", "POST /users", "PUT /users/:id",
               "DELETE /users/:id"}

\* mutant: the middleware is given a secret other than the service's
ArriveOtherSecret(r, h) ==
    /\ gate[r] = Nil
    /\ gate' = [gate EXCEPT ![r] = AuthMiddleware(h, OtherSecret)]

\* mutant: the middleware turns a token away when its user is no longer in the
\* table under the token's email
ArriveCheckingStore(r, h) ==
    /\ gate[r] = Nil
    /\ gate' = [gate EXCEPT ![r] =
           LET c == AuthMiddleware(h, JwtSecret)
           IN  IF /\ ~c.aborted
                  /\ ~\E u \in Live(store) :
                        /\ Box(u.ID) = c.keys["user_id"]
                        /\ Box(u.Email) = c.keys["user_email"]
               THEN Reject(h, "Invalid or expired token", c.verified, NoErr)
               ELSE c]

\* a request with Authorization header h, to a route of the /api/v1/users
\* group, reaches AuthMiddleware; requests are numbered in the order in which
\* they reach it
Arrive(r, h) ==
    /\ gate[r] = Nil
    /\ \A q \in Reqs : q < r => gate[q] # Nil
    /\ gate' = [gate EXCEPT ![r] = AuthMiddleware(h, JwtSecret)]

\* mutant: the routes are registered without the middleware
GateRequestNoMiddleware(r) ==
    /\ gate[r] = Nil
    /\ \E h \in Headers :
         gate' = [gate EXCEPT ![r] = Context(h, Nil, FALSE, NoKeys, <<>>, NoErr)]
    /\ UNCHANGED <<svars, now, xvars>>

\* mutant: the identity is kept in one place shared by all requests
GateRequestShared(r) ==
    /\ gate[r] = Nil
    /\ \E h \in Headers :
         LET c == AuthMiddleware(h, JwtSecret)
         IN  gate' = [q \in Reqs |->
                        IF q = r THEN c
                        ELSE IF gate[q] # Nil /\ ~gate[q].aborted /\ ~c.aborted
                        THEN [gate[q] EXCEPT !.keys = c.keys]
                        ELSE gate[q]]
    /\ UNCHANGED <<svars, now, xvars>>

\* a request of any client to a route of the /api/v1/users group
GateRequest(r) ==
    /\ \E h \in Headers : Arrive(r, h)
    /\ UNCHANGED <<svars, now, xvars>>

\* c.Next(): the route's handler runs, unless the chain was aborted
ProtectedHandler(r) ==
    /\ gate[r] # Nil
    /\ ~gate[r].aborted /\ ~gate[r].handled
    /\ \E h \in UserRoutes :
         gate' = [gate EXCEPT ![r].handled = TRUE, ![r].route = h]
    /\ UNCHANGED <<svars, now, xvars>>

\* time passes
Tick ==
    /\ now < MaxTime
    /\ now' = now + 1
    /\ UNCHANGED <<svars, gate, xvars>>

\* ------------------------------------------------------------- user service
\* userRepository.FindByID: First(&user, id) among the rows not soft-deleted
FindByID(id) ==
    LET rows == {r \in Live(store) : r.ID = id}
    IN  IF rows = {}
        THEN [err |-> ErrRecordNotFound, user |-> Nil]
        ELSE [err |-> NoErr, user |-> CHOOSE r \in rows : TRUE]

FindByIDOutcomes(id) == {FindByID(id), [err |-> ErrStore, user |-> Nil]}

\* mutant: Delete reports success and leaves the row as it is
SoftDeleteNone(id) == store

\* userRepository.Delete: gorm soft delete, the row stays with deleted_at set
SoftDelete(id) ==
    {IF r.ID = id /\ ~r.Deleted THEN [r EXCEPT !.Deleted = TRUE] ELSE r :
        r \in store}

\* userService.Delete(id) on FindByID's answer out and repo.Delete's answer d:
\* the error returned and the table afterwards
DeleteUser(id, out, d) ==
    IF out.err = ErrRecordNotFound THEN [err |-> ErrUserNotFound, store |-> store]
    ELSE IF out.err # NoErr THEN [err |-> out.err, store |-> store]
    ELSE IF d # NoErr THEN [err |-> d, store |-> store]
    ELSE [err |-> NoErr, store |-> SoftDelete(id)]

\* userRepository.Update: db.Save(user).Error
UpdateOutcomes(u) ==
    {ErrStore} \cup
    {IF uniqueEmail /\ \E r \in store : r.Email = u.Email /\ r.ID # u.ID
     THEN ErrDuplicateKey ELSE NoErr}

\* the user after the assignments of userService.Update
Updated(u, email, name) ==
    [u EXCEPT !.Email = IF email # "" THEN email ELSE @,
              !.Name = IF name # "" THEN name ELSE @]

\* userService.Update(id, req) on FindByID's answer out, FindByEmail's answer
\* taken (only consulted when req.Email is not empty) and repo.Update's w
UpdateUser(id, email, name, out, taken, w) ==
    IF out.err = ErrRecordNotFound THEN [err |-> ErrUserNotFound, store |-> store]
    ELSE IF out.err # NoErr THEN [err |-> out.err, store |-> store]
    ELSE IF email # "" /\ taken.err = NoErr /\ taken.user.ID # id
    THEN [err |-> ErrEmailExists, store |-> store]
    ELSE IF w # NoErr THEN [err |-> w, store |-> store]
    ELSE [err |-> NoErr,
          store |-> (store \ {out.user}) \cup {Updated(out.user, email, name)}]

\* ids a client may put in /users/:id
PathIDs == 1..NumCalls

\* what a user call did: the operation, the id, the error returned, and the
\* requests that had not been received yet when it returned
UserCall(op, id, err) ==
    [op |-> op, id |-> id, err |-> err, before |-> {q \in Reqs : gate[q] = Nil}]

\* UserHandler.Delete behind AuthMiddleware -> userService.Delete
UserDelete(r) ==
    /\ gate[r] # Nil
    /\ ~gate[r].aborted /\ ~gate[r].handled
    /\ \E id \in PathIDs, d \in {NoErr, ErrStore} :
       \E out \in FindByIDOutcomes(id) :
         LET x == DeleteUser(id, out, d)
         IN  /\ store' = x.store
             /\ ures' = UserCall("Delete", id, x.err)
             /\ gate' = [gate EXCEPT
                    ![r].handled = TRUE,
                    ![r].route = "DELETE /users/:id",
                    ![r].resp = IF x.err # NoErr THEN NotFound(x.err)
                                ELSE Success("User deleted successfully", Nil)]
    /\ UNCHANGED <<nextID, uniqueEmail, jwtExpiry, pc, req, lookup, user, result,
                   http, pre, steps, now, codec, config>>

\* UserHandler.Update behind AuthMiddleware -> userService.Update
UserUpdate(r) ==
    /\ gate[r] # Nil
    /\ ~gate[r].aborted /\ ~gate[r].handled
    /\ \E id \in PathIDs, e \in Emails \cup {""}, n \in Names \cup {""} :
         \E out \in FindByIDOutcomes(id) :
         \E taken \in (IF out.err = NoErr /\ e # "" THEN FindByEmailOutcomes(e)
                       ELSE {FindByEmail(e)}) :
         \E w \in (IF out.err = NoErr THEN UpdateOutcomes(Updated(out.user, e, n))
                   ELSE {NoErr}) :
            LET x == UpdateUser(id, e, n, out, taken, w)
            IN  /\ store' = x.store
                /\ ures' = UserCall("Update", id, x.err)
                /\ gate' = [gate EXCEPT
                       ![r].handled = TRUE,
                       ![r].route = "PUT /users/:id",
                       ![r].resp =
                           IF x.err # NoErr THEN BadRequest(x.err, Nil)
                           ELSE Success("User updated successfully",
                                        UserResponse(Updated(out.user, e, n)))]
    /\ UNCHANGED <<nextID, uniqueEmail, jwtExpiry, pc, req, lookup, user, result,
                   http, pre, steps, now, codec, config>>

\* a client sends the token it got from Register or Login to a protected route
FlowRequest(r) ==
    /\ \E p \in Procs :
         /\ pc[p] = "done" /\ result[p] # Nil /\ result[p].err = NoErr
         /\ Arrive(r, <<W("Bearer"), Sp, Wire(result[p].resp.Token)>>)
    /\ UNCHANGED <<svars, now, xvars>>

\* ------------------------------------------------------------- token codec
\* the token codec called directly: user IDs, secrets and lifetimes tried
UserIDs == {1, 42}
Secrets == {JwtSecret, OtherSecret}
Ttls == 0..MaxTime

\* no verification has failed for expiry yet
NoTime == 0 - 1

\* jwt.GenerateToken is called once
CodecIssue ==
    /\ codec.minted = Nil
    /\ \E id \in UserIDs, e \in Emails, k \in Secrets, ttl \in Ttls :
         codec' = [codec EXCEPT !.minted =
                      [UserID |-> id, Email |-> e, secret |-> k, ttl |-> ttl,
                       at |-> now, out |-> GenerateToken(id, e, k, ttl)]]
    /\ UNCHANGED <<svars, now, gate, ures, config>>

\* jwt.ValidateToken is called on the issued token, or on text that is no token
CodecVerify ==
    /\ codec.minted # Nil
    /\ codec.minted.out.err = NoErr
    /\ \E k \in Secrets,
          t \in {<<Wire(codec.minted.out.token)>>, <<W("abc")>>} :
         LET v == ValidateToken(t, k)
         IN  codec' = [codec EXCEPT
                 !.check = [token |-> t, secret |-> k, at |-> now, out |-> v],
                 !.expiredAt = IF v.err = ErrTokenExpired /\ codec.expiredAt = NoTime
                               THEN now ELSE codec.expiredAt]
    /\ UNCHANGED <<svars, now, gate, ures, config>>

\* ------------------------------------------------------------- pkg/config
\* A viper key is its words joined by "."; an environment variable name is its
\* words joined by "_". Case plays no part: viper lowers keys and raises the
\* names it looks up in the environment. A value is a sequence, <<>> the empty
\* string.
Key(words) == [sep |-> ".", words |-> words]
Name(words) == [sep |-> "_", words |-> words]

\* the keys config.Load reads into Config
StringKeys ==
    {<<"app", "name">>, <<"app", "env">>, <<"app", "port">>,
     <<"database", "host">>, <<"database", "port">>, <<"database", "user">>,
     <<"database", "password">>, <<"database", "name">>, <<"database", "sslmode">>,
     <<"jwt", "secret">>, <<"log", "level">>, <<"log", "encoding">>}
IntKeys == {<<"database", "max_open_conns">>, <<"database", "max_idle_conns">>}
DurationKeys == {<<"database", "conn_max_lifetime">>, <<"jwt", "expiration">>}
Keys == StringKeys \cup IntKeys \cup DurationKeys

\* setDefaults
Defaults ==
    [k \in Keys |->
        CASE k = <<"app", "name">> -> <<"go-clean-boiler">>
          [] k = <<"app", "env">> -> <<"development">>
          [] k = <<"app", "port">> -> <<"8080">>
          [] k = <<"database", "host">> -> <<"localhost">>
          [] k = <<"database", "port">> -> <<"5432">>
          [] k = <<"database", "user">> -> <<"postgres">>
          [] k = <<"database", "password">> -> <<"postgres">>
          [] k = <<"database", "name">> -> <<"go_clean_boiler">>
          [] k = <<"database", "sslmode">> -> <<"disable">>
          [] k = <<"database", "max_open_conns">> -> <<"25">>
          [] k = <<"database", "max_idle_conns">> -> <<"25">>
          [] k = <<"database", "conn_max_lifetime">> -> <<"5m">>
          [] k = <<"jwt", "secret">> -> <<JwtSecret>>
          [] k = <<"jwt", "expiration">> -> <<"24h">>
          [] k = <<"log", "level">> -> <<"debug">>
          [] k = <<"log", "encoding">> -> <<"console">>]

\* the environment variables Load asks for by name, as words
OverrideNames ==
    {<<"app", "port">>, <<"db", "host">>, <<"db", "port">>, <<"db", "user">>,
     <<"db", "password">>, <<"db", "name">>, <<"jwt", "secret">>}

\* the environment variables the README lists
EnvNames == OverrideNames \cup {<<"jwt", "expiration">>, <<"log", "level">>}

\* the Config field an environment variable stands for
FieldKey(n) == IF n[1] = "db" THEN <<"database", n[2]>> ELSE n

\* viper with AutomaticEnv and no key replacer: the environment variable
\* looked up for a key is the key itself in upper case, "." left as it is;
\* an empty variable counts as not set
Getenv(env, q) ==
    IF q.sep = "_" /\ q.words \in DOMAIN env THEN env[q.words] ELSE <<>>

\* viper.Get: environment, then config file, then default
Get(env, file, q) ==
    IF Getenv(env, q) # <<>> THEN Getenv(env, q)
    ELSE IF q.sep = "." /\ q.words \in DOMAIN file THEN file[q.words]
    ELSE IF q.sep = "." /\ q.words \in DOMAIN Defaults THEN Defaults[q.words]
    ELSE <<>>

\* viper.GetString / GetInt / GetDuration: the value cast to the field's type
Cast(k, v) ==
    IF k \in IntKeys THEN [int |-> v]
    ELSE IF k \in DurationKeys THEN [duration |-> v]
    ELSE [string |-> v]

\* config.Load: the fields read key by key, then the seven overrides
Load(env, file) ==
    [k \in Keys |->
        IF \E n \in OverrideNames :
              FieldKey(n) = k /\ Get(env, file, Name(n)) # <<>>
        THEN LET n == CHOOSE m \in OverrideNames : FieldKey(m) = k
             IN  [string |-> Get(env, file, Name(n))]
        ELSE Cast(k, Get(env, file, Key(k)))]

\* the environments and config files tried: each listed variable unset (or
\* empty) or set, no config file or one that gives every key
Environments ==
    [EnvNames -> {"unset", "set"}]
ConfigFiles == {[k \in K |-> <<"file">> \o k] : K \in {{}, Keys}}
EnvOf(e) == [n \in EnvNames |-> IF e[n] = "set" THEN <<"env">> \o n ELSE <<>>]

\* main: cfg, err := config.Load()
LoadConfig ==
    /\ config # Nil
    /\ config.loaded = Nil
    /\ config' = [config EXCEPT !.loaded = Load(config.env, config.file)]
    /\ UNCHANGED <<svars, now, gate, codec, ures>>

\* ------------------------------------------------ user service, called directly
\* mutant: Create does not look the email up first
CreateUserNoCheck(email, password, name, out, h, c) ==
    IF h.err # NoErr THEN [err |-> h.err, resp |-> Nil, store |-> store]
    ELSE IF c.err # NoErr THEN [err |-> c.err, resp |-> Nil, store |-> store]
    ELSE LET u == User(nextID, email, h.hash, name)
         IN  [err |-> NoErr, resp |-> UserResponse(u), store |-> store \cup {u}]

\* userService.Create(req) on FindByEmail's answer out, GenerateFromPassword's
\* answer h and repo.Create's answer c: the error and response returned, the
\* table afterwards
CreateUser(email, password, name, out, h, c) ==
    IF out.err = NoErr
    THEN [err |-> ErrEmailExists, resp |-> Nil, store |-> store]
    ELSE IF out.err # ErrRecordNotFound
    THEN [err |-> out.err, resp |-> Nil, store |-> store]
    ELSE IF h.err # NoErr THEN [err |-> h.err, resp |-> Nil, store |-> store]
    ELSE IF c.err # NoErr THEN [err |-> c.err, resp |-> Nil, store |-> store]
    ELSE LET u == User(nextID, email, h.hash, name)
         IN  [err |-> NoErr, resp |-> UserResponse(u), store |-> store \cup {u}]

\* userService.GetByID(id) on FindByID's answer out
GetByID(id, out) ==
    IF out.err = ErrRecordNotFound THEN [err |-> ErrUserNotFound, resp |-> Nil]
    ELSE IF out.err # NoErr THEN [err |-> out.err, resp |-> Nil]
    ELSE [err |-> NoErr, resp |-> UserResponse(out.user)]

\* what a call of a service was given and returned, and the calls to the
\* database, the hasher or the token codec that failed during it
ServiceCall(op, id, email, password, name, err, resp, faulted) ==
    [op |-> op, id |-> id, email |-> email, password |-> password,
     name |-> name, err |-> err, resp |-> resp, faulted |-> faulted]

\* bcrypt.GenerateFromPassword in userService.Create: the salt drawn plays no
\* part in what the user service does with the hash, so one salt, other than
\* the seeded user's, is tried
CreateHashOutcomes(password) ==
    {h \in GenerateFromPasswordOutcomes(password) :
        h.err # NoErr \/ h.hash.salt = "salt2"}

\* UserHandler.Create -> userService.Create
ServiceCreate ==
    /\ nextID <= MaxUsers
    /\ \E e \in Emails, pw \in Passwords, n \in Names :
       \E out \in FindByEmailOutcomes(e) :
       \E h \in (IF out.err = ErrRecordNotFound
                 THEN CreateHashOutcomes(pw)
                 ELSE {[err |-> ErrHash, hash |-> Nil]}) :
       \E c \in (IF out.err = ErrRecordNotFound /\ h.err = NoErr
                 THEN CreateOutcomes(User(0, e, Nil, n))
                 ELSE {[err |-> ErrStore]}) :
         LET x == CreateUser(e, pw, n, out, h, c)
         IN  /\ store' = x.store
             /\ nextID' = IF x.err = NoErr THEN nextID + 1 ELSE nextID
             /\ ures' = ServiceCall("Create", 0, e, pw, n, x.err, x.resp,
                    IF out.err = ErrStore THEN {"FindByEmail"}
                    ELSE IF x.err = ErrHash THEN {"GenerateFromPassword"}
                    ELSE IF x.err = ErrStore THEN {"Create"} ELSE {})
    /\ UNCHANGED <<uniqueEmail, jwtExpiry, pc, req, lookup, user, result,
                   http, pre, steps, now, gate, codec, config>>

\* UserHandler.GetByID -> userService.GetByID
ServiceGetByID ==
    /\ \E id \in PathIDs :
       \E out \in FindByIDOutcomes(id) :
         LET x == GetByID(id, out)
         IN  ures' = ServiceCall("GetByID", id, "", "", "", x.err, x.resp,
                    IF out.err = ErrStore THEN {"FindByID"} ELSE {})
    /\ UNCHANGED <<svars, now, gate, codec, config>>

\* UserHandler.Update -> userService.Update
ServiceUpdate ==
    /\ \E id \in PathIDs, e \in Emails \cup {""}, n \in Names \cup {""} :
         \E out \in FindByIDOutcomes(id) :
         \E taken \in (IF out.err = NoErr /\ e # "" THEN FindByEmailOutcomes(e)
                       ELSE {FindByEmail(e)}) :
         \E w \in (IF out.err = NoErr /\
                      ~(e # "" /\ taken.err = NoErr /\ taken.user.ID # id)
                   THEN UpdateOutcomes(Updated(out.user, e, n))
                   ELSE {NoErr}) :
            LET x == UpdateUser(id, e, n, out, taken, w)
            IN  /\ store' = x.store
                /\ ures' = ServiceCall("Update", id, e, "", n, x.err,
                              IF x.err = NoErr
                              THEN UserResponse(Updated(out.user, e, n)) ELSE Nil,
                              IF out.err = ErrStore THEN {"FindByID"}
                              ELSE (IF e # "" /\ taken.err = ErrStore
                                    THEN {"FindByEmail"} ELSE {}) \cup
                                   (IF x.err = ErrStore THEN {"Update"} ELSE {}))
    /\ UNCHANGED <<nextID, uniqueEmail, jwtExpiry, pc, req, lookup, user, result,
                   http, pre, steps, now, gate, codec, config>>

\* UserHandler.Delete -> userService.Delete
ServiceDelete ==
    /\ \E id \in PathIDs :
       \E out \in FindByIDOutcomes(id) :
       \E d \in (IF out.err = NoErr THEN {NoErr, ErrStore} ELSE {NoErr}) :
         LET x == DeleteUser(id, out, d)
         IN  /\ store' = x.store
             /\ ures' = ServiceCall("Delete", id, "", "", "", x.err, Nil,
                    IF out.err = ErrStore THEN {"FindByID"}
                    ELSE IF x.err = ErrStore THEN {"Delete"} ELSE {})
    /\ UNCHANGED <<nextID, uniqueEmail, jwtExpiry, pc, req, lookup, user, result,
                   http, pre, steps, now, gate, codec, config>>

\* AuthHandler.Login -> authService.Login, as one more call next to the user
\* service's
ServiceLogin ==
    /\ \E e \in Emails, pw \in Passwords :
       \E out \in FindByEmailOutcomes(e) :
         LET x == Login(out, pw).res
         IN  ures' = ServiceCall("Login", 0, e, pw, "", x.err, x.resp,
                    IF out.err = ErrStore THEN {"FindByEmail"}
                    ELSE IF x.err = ErrDuration THEN {"generateToken"} ELSE {})
    /\ UNCHANGED <<svars, now, gate, codec, config>>

\* AuthHandler.Register -> authService.Register, run to completion
ServiceRegister ==
    /\ nextID <= MaxUsers
    /\ \E e \in Emails, pw \in Passwords, n \in Names :
       \E out \in FindByEmailOutcomes(e) :
       \E h \in (IF RegisterCheck(out) = NoErr THEN CreateHashOutcomes(pw)
                 ELSE {[err |-> ErrHash, hash |-> Nil]}) :
       \E c \in (IF RegisterCheck(out) = NoErr /\ h.err = NoErr
                 THEN CreateOutcomes(User(0, e, h.hash, n))
                 ELSE {[err |-> ErrStore]}) :
         LET u == User(nextID, e, h.hash, n)
             x == IF RegisterCheck(out) # NoErr THEN Fail(RegisterCheck(out))
                  ELSE IF h.err # NoErr THEN Fail(h.err)
                  ELSE RegisterPersisted(c, u).res
             created == RegisterCheck(out) = NoErr /\ h.err = NoErr /\ c.err = NoErr
         IN  /\ store' = IF created THEN store \cup {u} ELSE store
             /\ nextID' = IF created THEN nextID + 1 ELSE nextID
             /\ ures' = ServiceCall("Register", 0, e, pw, n, x.err, x.resp,
                    IF out.err = ErrStore THEN {"FindByEmail"}
                    ELSE IF x.err = ErrHash THEN {"GenerateFromPassword"}
                    ELSE IF x.err = ErrStore THEN {"Create"} ELSE {})
    /\ UNCHANGED <<uniqueEmail, jwtExpiry, pc, req, lookup, user, result,
                   http, pre, steps, now, gate, codec, config>>

\* ---------------------------------------------------------- listing users
\* Go's int: two's complement of IntBits bits
MaxInt == 2^(IntBits - 1) - 1
MinInt == -(2^(IntBits - 1))

\* the int that the arithmetic of the build leaves for the integer x
Wrap(x) == ((x + 2^(IntBits - 1)) % 2^IntBits) - 2^(IntBits - 1)

\* a query value: decimal digits with an optional sign, or other text
Digits(n) == [num |-> TRUE, n |-> n]
Text == [num |-> FALSE, n |-> 0]

\* strconv.Atoi: 0 for text that is no number, the nearest int for a number
\* out of int's range, each with an error
Atoi(s) ==
    IF ~s.num THEN [n |-> 0, err |-> ErrSyntax]
    ELSE IF s.n > MaxInt THEN [n |-> MaxInt, err |-> ErrRange]
    ELSE IF s.n < MinInt THEN [n |-> MinInt, err |-> ErrRange]
    ELSE [n |-> s.n, err |-> NoErr]

\* gin.Context.DefaultQuery: the value of the key, def when the key is absent
DefaultQuery(q, def) == IF q = Nil THEN def ELSE q

\* mutant: the page number is taken as parsed
QueryPageUnclamped(q) == Atoi(DefaultQuery(q, Digits(1))).n

\* UserHandler.GetAll, the page number: Atoi's error is dropped
QueryPage(q) ==
    LET page == Atoi(DefaultQuery(q, Digits(1))).n
    IN  IF page < 1 THEN 1 ELSE page

\* UserHandler.GetAll, the page size
QueryPerPage(q) ==
    LET perPage == Atoi(DefaultQuery(q, Digits(10))).n
    IN  IF perPage < 1 \/ perPage > 100 THEN 10 ELSE perPage

\* userService.GetAll: offset := (page - 1) * perPage
Offset(page, perPage) == Wrap((page - 1) * perPage)

\* the orders in which the database may return the rows of a set: the query
\* has no ORDER BY
Orders(rows) ==
    {o \in [1..Cardinality(rows) -> rows] :
        \A i, j \in DOMAIN o : o[i] = o[j] => i = j}

\* LIMIT limit OFFSET offset over the rows in order o; gorm writes the OFFSET
\* clause only for an offset above zero
LimitOffset(o, limit, offset) ==
    LET skip == IF offset > 0 THEN offset ELSE 0
        last == IF skip + limit < Len(o) THEN skip + limit ELSE Len(o)
    IN  SubSeq(o, skip + 1, last)

\* userRepository.FindAll: Count, then Limit(limit).Offset(offset).Find; either
\* query may fail
FindAllOutcomes(limit, offset) ==
    {[err |-> ErrStore, users |-> <<>>, total |-> 0]} \cup
    {[err |-> NoErr, users |-> LimitOffset(o, limit, offset),
      total |-> Cardinality(Live(store))] : o \in Orders(Live(store))}

\* mutant: the records are returned as stored
GetAllRaw(out) ==
    IF out.err # NoErr THEN [users |-> Nil, total |-> 0, err |-> out.err]
    ELSE [users |-> out.users, total |-> out.total, err |-> NoErr]

\* userService.GetAll on FindAll's answer out
GetAll(out) ==
    IF out.err # NoErr THEN [users |-> Nil, total |-> 0, err |-> out.err]
    ELSE [users |-> [i \in DOMAIN out.users |-> UserResponse(out.users[i])],
          total |-> out.total, err |-> NoErr]

\* UserHandler.GetAll: totalPages from the total and the page size
TotalPages(total, perPage) ==
    IF total % perPage > 0 THEN Wrap((total \div perPage) + 1)
    ELSE total \div perPage

\* response.PaginationMeta
PaginationMeta(page, perPage, total, totalPages) ==
    [CurrentPage |-> page, PerPage |-> perPage, Total |-> total,
     TotalPages |-> totalPages]

\* response.Paginated
Paginated(message, data, pagination) ==
    [status |-> StatusOK, success |-> TRUE, message |-> message,
     data |-> data, pagination |-> pagination]

\* response.InternalServerError
InternalServerError(message, err) ==
    Response(StatusInternalServerError, FALSE, message, Nil, err)

\* what UserHandler.GetAll did with a request: the query, what it passed to
\* the service, what the service passed to the repository and returned, and
\* the response written
ListCall(page, perPage, x, faulted) ==
    [op |-> "GetAll", page |-> QueryPage(page), perPage |-> QueryPerPage(perPage),
     query |-> [page |-> page, per_page |-> perPage],
     offset |-> Offset(QueryPage(page), QueryPerPage(perPage)),
     err |-> x.err, resp |-> x.users, total |-> x.total, faulted |-> faulted,
     http |-> IF x.err # NoErr
              THEN InternalServerError("Failed to fetch users", x.err)
              ELSE Paginated("Users retrieved successfully", x.users,
                       PaginationMeta(QueryPage(page), QueryPerPage(perPage),
                           x.total, TotalPages(x.total, QueryPerPage(perPage))))]

\* UserHandler.GetAll -> userService.GetAll -> userRepository.FindAll, for
\* query values drawn from pages and perPages
UserGetAll(pages, perPages) ==
    /\ \E page \in pages, perPage \in perPages :
       \E out \in FindAllOutcomes(QueryPerPage(perPage),
                       Offset(QueryPage(page), QueryPerPage(perPage))) :
         ures' = ListCall(page, perPage, GetAll(out),
                    IF out.err = ErrStore THEN {"FindAll"} ELSE {})
    /\ UNCHANGED <<svars, now, gate, codec, config>>

\* the page and per_page values of a request: absent, no number, zero,
\* negative, small, large, beyond int
PageQueries ==
    {Nil, Text, Digits(0), Digits(-1), Digits(1), Digits(2), Digits(MaxInt),
     Digits(MaxInt + 1)}
PerPageQueries ==
    {Nil, Text, Digits(0), Digits(-1), Digits(1), Digits(2), Digits(100),
     Digits(101), Digits(MaxInt + 1)}

\* GET /users with any query
HandlerGetAll == UserGetAll(PageQueries, PerPageQueries)

\* GET /users without a query, or asking for the second page of one
ServiceGetAll == UserGetAll({Nil, Digits(2)}, {Nil, Digits(1)})

\* ------------------------------------------------------------ specifications
NoGate == [r \in Reqs |-> Nil]
NoCodec == [minted |-> Nil, check |-> Nil, expiredAt |-> NoTime]

\* the users table outlives the process: it starts empty or with one user
\* registered earlier
SeedUser == User(1, "a@x.com", Bcrypt("secret1", "salt1"), "A")
SeedStores == {{}, {SeedUser}}

\* the service started with jwt.expiration one of expiries
Started(expiries) ==
    /\ store \in SeedStores
    /\ nextID = Cardinality(store) + 1
    /\ uniqueEmail \in BOOLEAN
    /\ jwtExpiry \in expiries
    /\ now = 0
    /\ pc = [p \in Procs |-> "idle"]
    /\ req = [p \in Procs |-> Nil]
    /\ lookup = [p \in Procs |-> NoErr]
    /\ user = [p \in Procs |-> Nil]
    /\ result = [p \in Procs |-> Nil]
    /\ http = [p \in Procs |-> Nil]
    /\ pre = [p \in Procs |-> {}]
    /\ steps = [p \in Procs |-> <<>>]
    /\ gate = NoGate
    /\ codec = NoCodec
    /\ ures = Nil

Init ==
    /\ Started(JwtExpiries)
    /\ config = Nil

Step(p) ==
    \/ HandlerReject(p)
    \/ RegisterFindByEmail(p)
    \/ RegisterCreate(p)
    \/ LoginCall(p)

\* requests are served concurrently, interleaved at the store calls
Next == \E p \in Procs : Step(p)

Spec == Init /\ [][Next]_vars

\* one request at a time: each call runs to completion before the next begins
Serial(p) == \A q \in Procs \ {p} : pc[q] # "create"

NextSeq ==
    \/ \E p \in Procs : Serial(p) /\ HandlerReject(p)
    \/ \E p \in Procs : Serial(p) /\ RegisterFindByEmail(p)
    \/ \E p \in Procs : Serial(p) /\ RegisterCreate(p)
    \/ \E p \in Procs : Serial(p) /\ LoginCall(p)

SpecSeq == Init /\ [][NextSeq]_vars

\* the protected routes alone: requests through AuthMiddleware while time passes
InitGate ==
    /\ Init
    /\ store = {}
    /\ uniqueEmail
    /\ jwtExpiry = "1s"

NextGate ==
    \/ \E r \in Reqs : GateRequest(r)
    \/ \E r \in Reqs : ProtectedHandler(r)
    \/ Tick

SpecGate == InitGate /\ [][NextGate]_vars

\* the token codec alone: one token issued, verified again and again as time
\* passes
NextCodec ==
    \/ CodecIssue
    \/ CodecVerify
    \/ Tick

SpecCodec == InitGate /\ [][NextCodec]_vars

\* the whole service: one client registers or logs in, its token is sent to the
\* protected routes by two requests, one of which may update or delete a user
\* before the other is received, time passes
FlowProcs == {1}
FlowReqs == {1, 2}

InitFlow ==
    /\ Started({"2s"})
    /\ uniqueEmail
    /\ config = Nil

NextFlow ==
    \/ \E p \in FlowProcs : HandlerReject(p)
    \/ \E p \in FlowProcs : RegisterFindByEmail(p)
    \/ \E p \in FlowProcs : RegisterCreate(p)
    \/ \E p \in FlowProcs : LoginCall(p)
    \/ \E r \in FlowReqs : FlowRequest(r)
    \/ \E r \in FlowReqs : UserDelete(r)
    \/ \E r \in FlowReqs : UserUpdate(r)
    \/ Tick

SpecFlow == InitFlow /\ [][NextFlow]_vars

\* start-up: the configuration is loaded from the environment and the file
InitConfig ==
    /\ Started({"1s"})
    /\ store = {}
    /\ uniqueEmail
    /\ \E e \in Environments, f \in ConfigFiles :
         config = [env |-> EnvOf(e), file |-> f, loaded |-> Nil]

NextConfig == LoadConfig

SpecConfig == InitConfig /\ [][NextConfig]_vars

\* the user service and Login: users are created, read, updated and deleted,
\* and clients log in
InitUsers ==
    /\ Started({"1s"})
    /\ config = Nil

NextUsers ==
    \/ ServiceCreate
    \/ ServiceGetByID
    \/ ServiceUpdate
    \/ ServiceDelete
    \/ ServiceLogin
    \/ ServiceGetAll
    \/ ServiceRegister

SpecUsers == InitUsers /\ [][NextUsers]_vars

\* the user list: users are created and deleted, and the list is requested
\* with every kind of query
NextPage ==
    \/ ServiceCreate
    \/ ServiceDelete
    \/ HandlerGetAll

SpecPage == InitUsers /\ [][NextPage]_vars

\* ------------------------------------------------------------------ claims
RowsFor(s, email) == {r \in s : r.Email = email}

IsRegister(p) == req[p] # Nil /\ req[p].valid /\ req[p].op = "Register"
IsLogin(p) == req[p] # Nil /\ req[p].valid /\ req[p].op = "Login"
Done(p) == pc[p] = "done"
Succeeded(p) == Done(p) /\ result[p] # Nil /\ result[p].err = NoErr

\* faults of the collaborators: the database is down, the hasher or the token
\* codec refuses
Faults == {ErrStore, ErrHash, ErrDuration}

\* C1: when the Register calls run one after the other, each to completion,
\* the users table never holds two rows with the same email, whether or not
\* the table has a unique index and whatever lookups and creates fail.
C1_OneRecordPerEmail ==
    \A e \in Emails : Cardinality(RowsFor(store, e)) <= 1

\* C1 witness: a registration succeeded and a later one for the same email ended
C1_Witness ==
    \E p, q \in Procs :
        /\ p # q /\ IsRegister(p) /\ IsRegister(q)
        /\ req[p].Email = req[q].Email
        /\ Succeeded(p) /\ Done(q) /\ ~uniqueEmail
        /\ user[p] \in store

\* C2: without a unique index, two Register calls for one email whose lookups
\* both answered not-found and that met no fault both succeed with a token,
\* and the table holds two rows for that email.
C2_RaceBothSucceed ==
    \A p, q \in Procs :
        ( /\ p # q /\ ~uniqueEmail
          /\ IsRegister(p) /\ IsRegister(q) /\ req[p].Email = req[q].Email
          /\ Done(p) /\ Done(q)
          /\ lookup[p] = ErrRecordNotFound /\ lookup[q] = ErrRecordNotFound
          /\ result[p].err \notin Faults /\ result[q].err \notin Faults )
        => /\ result[p].err = NoErr /\ result[q].err = NoErr
           /\ result[p].resp.Token # Nil /\ result[q].resp.Token # Nil
           /\ http[p].status = StatusCreated /\ http[q].status = StatusCreated
           /\ user[p].ID # user[q].ID
           /\ {user[p], user[q]} \subseteq RowsFor(store, req[p].Email)

\* C2 witness: both calls passed the lookup before either created, both
\* returned a token, and the table ends with two rows for the email
C2_Witness ==
    \E p, q \in Procs :
        /\ p # q /\ ~uniqueEmail
        /\ IsRegister(p) /\ IsRegister(q) /\ req[p].Email = req[q].Email
        /\ lookup[p] = ErrRecordNotFound /\ lookup[q] = ErrRecordNotFound
        /\ Succeeded(p) /\ Succeeded(q)
        /\ result[p].resp.Token # Nil /\ result[q].resp.Token # Nil
        /\ Cardinality(RowsFor(store, req[p].Email)) = 2

\* C3: with a unique index on email, under every interleaving the table holds
\* at most one row per email, at most one Register call per email succeeds,
\* and every other finished call for it carries an error and no token.
C3_UniqueIndexSerializes ==
    uniqueEmail =>
        /\ \A e \in Emails : Cardinality(RowsFor(store, e)) <= 1
        /\ \A p, q \in Procs :
             ( /\ p # q /\ IsRegister(p) /\ IsRegister(q)
               /\ req[p].Email = req[q].Email /\ Succeeded(p) /\ Done(q) )
             => /\ result[q].err # NoErr
                /\ result[q].resp = Nil
                /\ http[q].data = Nil
                /\ http[q].status = StatusBadRequest

\* C3 witness: two calls raced past the lookup; the index let one through
C3_Witness ==
    \E p, q \in Procs :
        /\ p # q /\ uniqueEmail
        /\ IsRegister(p) /\ IsRegister(q) /\ req[p].Email = req[q].Email
        /\ lookup[p] = ErrRecordNotFound /\ lookup[q] = ErrRecordNotFound
        /\ Succeeded(p) /\ Done(q) /\ result[q].err = ErrDuplicateKey

\* the step in which auth request p starts, as the operation op
Starts(p, op) ==
    /\ pc[p] = "idle" /\ pc'[p] # "idle"
    /\ req'[p].valid /\ req'[p].op = op

\* the step in which auth request p, a call of op, returns
Returns(p, op) ==
    /\ pc[p] # "done" /\ pc'[p] = "done"
    /\ req'[p].valid /\ req'[p].op = op

\* what C4 says of a Register call that began with its email in the table
C4_Rejected(p) ==
    /\ pc'[p] = "done"
    /\ result'[p] = Fail(ErrEmailExists)
    /\ http'[p] = BadRequest(ErrEmailExists, Nil)
    /\ steps'[p] = <<"FindByEmail">>
    /\ user'[p] = Nil
    /\ store' = store /\ nextID' = nextID

\* C4 (as amended): a Register whose email has a live row in the table, and
\* whose lookup is answered by the table, fails with "email already exists";
\* it hashes nothing, creates nothing, issues no token, leaves the table as is.
C4_FoundIsDuplicate ==
    [][\A p \in Procs :
         ( /\ Starts(p, "Register")
           /\ RowsFor(Live(store), req'[p].Email) # {}
           /\ lookup'[p] # ErrStore )
         => C4_Rejected(p)]_vars

\* C4 as stated: every Register whose email has a row fails with
\* "email already exists"
C4_Original ==
    [][\A p \in Procs :
         ( /\ Starts(p, "Register")
           /\ RowsFor(Live(store), req'[p].Email) # {} )
         => C4_Rejected(p)]_vars

\* C4 witness: a Register succeeded and the next call, a Register of the same
\* email, was refused as a duplicate
C4_Witness ==
    \E p, q \in Procs :
        /\ p # q /\ IsRegister(p) /\ IsRegister(q)
        /\ req[p].Email = req[q].Email
        /\ Succeeded(p) /\ Done(q)
        /\ user[p] \in pre[q] /\ store = pre[q]
        /\ result[q].err = ErrEmailExists

\* C5: a Register call that returns an error leaves the table exactly as it
\* was when the call began.
C5_FailedRegisterIsAtomic ==
    [][\A p \in Procs :
         (Returns(p, "Register") /\ result'[p].err # NoErr)
         => store' = pre'[p]]_vars

\* C6: a Register of an email absent from the table that meets no fault
\* succeeds; the summary has the submitted email and name and the new row's
\* ID, the token is bound to that ID and email, and the table gained exactly
\* that one row.
C6_RegisterSuccess ==
    [][\A p \in Procs :
         ( /\ Returns(p, "Register")
           /\ RowsFor(pre'[p], req'[p].Email) = {}
           /\ result'[p].err \notin Faults )
         => LET r == result'[p].resp
                u == user'[p]
            IN  /\ result'[p].err = NoErr
                /\ http'[p] = Created("User registered successfully", r)
                /\ r.User.Email = req'[p].Email /\ r.User.Name = req'[p].Name
                /\ r.User.ID = u.ID
                /\ r.Token # Nil
                /\ r.Token.UserID = u.ID /\ r.Token.Email = req'[p].Email
                /\ u.Email = req'[p].Email
                /\ u \notin pre'[p]
                /\ store' = pre'[p] \cup {u}
                /\ Cardinality(store') = Cardinality(pre'[p]) + 1
                /\ \A o \in pre'[p] : o.ID # u.ID]_vars

\* C6 witness: a registration of a new email has just succeeded
C6_Witness ==
    \E p \in Procs :
        /\ IsRegister(p) /\ Succeeded(p)
        /\ RowsFor(pre[p], req[p].Email) = {}
        /\ user[p] \notin pre[p]
        /\ store = pre[p] \cup {user[p]}

\* a finished Login of an email without a row
UnknownEmail(p) ==
    IsLogin(p) /\ Done(p) /\ lookup[p] = ErrRecordNotFound

\* a finished Login of a registered email with a password that is not the
\* one the row was registered with
WrongPassword(p) ==
    /\ IsLogin(p) /\ Done(p) /\ lookup[p] = NoErr
    /\ user[p].Password.digest # <<user[p].Password.salt, req[p].Password>>

\* C7: a Login of an unknown email and a Login of a registered email with a
\* wrong password get the same error from the service and the same status and
\* message from the handler.
C7_IndistinguishableFailures ==
    \A p, q \in Procs :
        (UnknownEmail(p) /\ WrongPassword(q))
        => /\ result[p] = result[q]
           /\ result[p].err = ErrInvalidCredentials
           /\ http[p] = http[q]
           /\ http[p].status = StatusBadRequest
           /\ http[p].message = ErrInvalidCredentials

\* C7 witness: both kinds of failed Login have happened
C7_Witness ==
    \E p, q \in Procs : UnknownEmail(p) /\ WrongPassword(q)

\* the row a Login of email is checked against
FirstRow(s, email) ==
    CHOOSE r \in RowsFor(Live(s), email) :
        \A o \in RowsFor(Live(s), email) : r.ID <= o.ID

C8_Effect(p) ==
    /\ store' = store /\ nextID' = nextID
    /\ result'[p].err = NoErr =>
         LET r == FirstRow(store, req'[p].Email)
             t == result'[p].resp.Token
         IN  /\ t # Nil /\ t.UserID = r.ID /\ t.Email = r.Email
             /\ result'[p].resp.User = [ID |-> r.ID, Email |-> r.Email,
                                        Name |-> r.Name]

\* C8 (as amended): Login succeeds exactly when the lookup is answered by the
\* table, the table holds a live row for the email, the password verifies
\* against the hash of the first such row, and the token can be issued; the
\* token is bound to that row's ID and email; Login never changes the table.
C8_LoginSucceedsExactlyWhen ==
    [][\A p \in Procs :
         Starts(p, "Login")
         => /\ C8_Effect(p)
            /\ result'[p].err = NoErr <=>
                 /\ lookup'[p] # ErrStore
                 /\ RowsFor(Live(store), req'[p].Email) # {}
                 /\ LET h == FirstRow(store, req'[p].Email).Password
                    IN  h.digest = <<h.salt, req'[p].Password>>
                 /\ ParseDuration(jwtExpiry).err = NoErr]_vars

\* C8 as stated: Login succeeds exactly when the table holds a row for the
\* email whose hash the password verifies against and the token can be issued
C8_Original ==
    [][\A p \in Procs :
         Starts(p, "Login")
         => /\ C8_Effect(p)
            /\ result'[p].err = NoErr <=>
                 /\ \E r \in RowsFor(Live(store), req'[p].Email) :
                        r.Password.digest = <<r.Password.salt, req'[p].Password>>
                 /\ ParseDuration(jwtExpiry).err = NoErr]_vars

\* C8 witness: a Login with the registered password succeeded
C8_Witness ==
    \E p \in Procs :
        /\ IsLogin(p) /\ Succeeded(p)
        /\ user[p] \in store
        /\ result[p].resp.Token.UserID = user[p].ID

\* C9: the message a failed Register or Login sends to the HTTP caller is
\* never the text of a store, hashing or token error.
C9_GenericMessages ==
    \A p \in Procs :
        (Done(p) /\ ~http[p].success) => http[p].message \notin InternalErrors

\* the header is the text "Bearer", one space, and a rest
HasBearerShape(h) == Len(h) >= 2 /\ h[1] = W("Bearer") /\ h[2] = Sp

\* C10: a request whose Authorization header is empty or not of the shape
\* "Bearer <token>" is answered 401 and aborted; the route's handler does not
\* run, ValidateToken is not called, no identity is set.
C10_BadHeaderRejected ==
    \A r \in Reqs :
        (gate[r] # Nil /\ ~HasBearerShape(gate[r].header))
        => /\ gate[r].resp # Nil
           /\ gate[r].resp.status = StatusUnauthorized
           /\ ~gate[r].resp.success
           /\ gate[r].aborted
           /\ ~gate[r].handled
           /\ gate[r].verified = <<>>
           /\ DOMAIN gate[r].keys = {}
           /\ GetUserID(gate[r]) = <<0, FALSE>>

\* C10 witness: a request without a header and one with "Token abc" were both
\* turned away
C10_Witness ==
    \E r, q \in Reqs :
        /\ gate[r] # Nil /\ gate[r].header = <<>> /\ gate[r].aborted
        /\ gate[q] # Nil /\ gate[q].header = <<W("Token"), Sp, W("abc")>>
        /\ gate[q].aborted /\ gate[q].resp.status = StatusUnauthorized

\* the token part of a header of the shape "Bearer <token>"
TokenOf(h) == SubSeq(h, 3, Len(h))

\* what is wrong with a presented token at time t, if anything
FailureKind(token, t) ==
    IF Len(token) # 1 \/ "jwt" \notin DOMAIN token[1] THEN "malformed"
    ELSE IF token[1].jwt.key # JwtSecret THEN "bad signature"
    ELSE IF t >= token[1].jwt.ExpiresAt THEN "expired"
    ELSE "ok"

\* request r carried "Bearer <token>" and the token was not valid when seen
BadToken(r) ==
    /\ gate[r] # Nil
    /\ HasBearerShape(gate[r].header)
    /\ FailureKind(TokenOf(gate[r].header), gate[r].at) # "ok"

\* request r carried "Bearer <token>" and the token was valid when seen
GoodToken(r) ==
    /\ gate[r] # Nil
    /\ HasBearerShape(gate[r].header)
    /\ FailureKind(TokenOf(gate[r].header), gate[r].at) = "ok"

\* C11: a "Bearer <token>" request whose token fails verification is answered
\* 401 "Invalid or expired token" whatever the failure was (malformed, bad
\* signature, expired), so any two such responses are equal; the chain is
\* aborted, the handler does not run and no identity is set.
C11_UniformTokenRejection ==
    /\ \A r \in Reqs :
         BadToken(r)
         => /\ gate[r].verr # NoErr
            /\ gate[r].resp = Unauthorized("Invalid or expired token")
            /\ gate[r].resp.status = StatusUnauthorized
            /\ gate[r].aborted
            /\ ~gate[r].handled
            /\ DOMAIN gate[r].keys = {}
            /\ GetUserID(gate[r]) = <<0, FALSE>>
    /\ \A r, q \in Reqs :
         (BadToken(r) /\ BadToken(q)) => gate[r].resp = gate[q].resp

\* C11 witness: one request was turned away for an expired token and another
\* for a token signed with a different secret
C11_Witness ==
    \E r, q \in Reqs :
        /\ BadToken(r) /\ gate[r].verr = ErrTokenExpired
        /\ BadToken(q) /\ gate[q].verr = ErrTokenSignature
        /\ gate[r].aborted /\ gate[q].aborted

\* C12: a "Bearer <token>" request whose token verifies gets the token's user
\* ID and email set on its context, no response written, the chain not aborted
\* (the handler has run or can run), and GetUserID returns (that ID, true).
C12_ValidTokenAttachesIdentity ==
    \A r \in Reqs :
        GoodToken(r)
        => LET t == TokenOf(gate[r].header)[1].jwt
           IN  /\ gate[r].verr = NoErr
               /\ DOMAIN gate[r].keys = {"user_id", "user_email"}
               /\ gate[r].keys["user_id"] = Box(t.UserID)
               /\ gate[r].keys["user_email"] = Box(t.Email)
               /\ gate[r].resp = Nil
               /\ ~gate[r].aborted
               /\ gate[r].handled \/ ENABLED ProtectedHandler(r)
               /\ GetUserID(gate[r]) = <<t.UserID, TRUE>>

\* C12 witness: a request with a valid token of user 42 reached its handler,
\* where GetUserID returns (42, true)
C12_Witness ==
    \E r \in Reqs :
        /\ GoodToken(r)
        /\ gate[r].header = <<W("Bearer"), Sp, Wire(AToken)>>
        /\ gate[r].handled
        /\ GetUserID(gate[r]) = <<42, TRUE>>

\* the request was answered by the middleware and went no further
Rejected(r) ==
    /\ gate[r].aborted
    /\ gate[r].resp # Nil
    /\ DOMAIN gate[r].keys = {}

\* the request was passed on with an identity
Continued(r) ==
    /\ ~gate[r].aborted
    /\ gate[r].resp = Nil
    /\ DOMAIN gate[r].keys = {"user_id", "user_email"}
    /\ GetUserID(gate[r])[2]

\* C13: the handler of a route of the /api/v1/users group runs only on a
\* context that carries an identity, and every request that reached the
\* middleware was either rejected or passed on, never both and never neither.
C13_HandlerImpliesIdentity ==
    \A r \in Reqs :
        gate[r] # Nil
        => /\ gate[r].handled
              => /\ gate[r].route \in UserRoutes
                 /\ Continued(r)
                 /\ gate[r].verr = NoErr /\ gate[r].verified # <<>>
           /\ ~gate[r].handled => gate[r].route = "none"
           /\ Rejected(r) \/ Continued(r)
           /\ ~(Rejected(r) /\ Continued(r))
           /\ Rejected(r) => ~gate[r].handled

\* C13 witness: one request reached the handler of DELETE /users/:id with an
\* identity, another was rejected
C13_Witness ==
    \E r, q \in Reqs :
        /\ gate[r] # Nil /\ gate[r].handled /\ gate[r].route = "DELETE /users/:id"
        /\ Continued(r)
        /\ gate[q] # Nil /\ Rejected(q)

\* the identity a handler reads is the one of its own request's token
OwnIdentity ==
    \A r \in Reqs :
        (gate[r] # Nil /\ gate[r].handled)
        => /\ GoodToken(r)
           /\ GetUserID(gate[r]) =
                  <<TokenOf(gate[r].header)[1].jwt.UserID, TRUE>>
           /\ gate[r].keys["user_email"] =
                  Box(TokenOf(gate[r].header)[1].jwt.Email)

\* C19: a step that changes one request's context changes no other request's
\* context (its identity, its rejection, whether its handler runs), and after
\* it every handler still reads the identity of its own token.
C19_RequestsIsolated ==
    [][\A r \in Reqs :
          gate'[r] # gate[r]
          => /\ \A q \in Reqs \ {r} : gate'[q] = gate[q]
             /\ OwnIdentity']_vars

\* C19 witness: two requests with tokens of different users both reached
\* their handlers, each reading its own user ID
C19_Witness ==
    \E r, q \in Reqs :
        /\ gate[r] # Nil /\ gate[r].handled /\ GetUserID(gate[r]) = <<1, TRUE>>
        /\ gate[q] # Nil /\ gate[q].handled /\ GetUserID(gate[q]) = <<42, TRUE>>

\* the steps of the two operations, in the order of the code
RegisterOrder == <<"FindByEmail", "GenerateFromPassword", "Create", "generateToken">>
LoginOrder == <<"FindByEmail", "CompareHashAndPassword", "generateToken">>

IsPrefix(s, t) == Len(s) <= Len(t) /\ s = SubSeq(t, 1, Len(s))

\* C18: the steps a Register call has performed are an initial part of lookup,
\* hash, persist, issue (so each at most once, in that order), those of a Login
\* call an initial part of lookup, verify, issue; a call stops at the first
\* step that fails and a call that succeeded performed every step.
C18_StepsOnceInOrder ==
    \A p \in Procs :
        /\ IsRegister(p)
           => /\ IsPrefix(steps[p], RegisterOrder)
              /\ lookup[p] # ErrRecordNotFound => steps[p] = <<"FindByEmail">>
              /\ (Done(p) /\ result[p].err = ErrHash) => Len(steps[p]) = 2
              /\ (Len(steps[p]) >= 3 /\ user[p].ID = 0) => Len(steps[p]) = 3
              /\ Succeeded(p) => steps[p] = RegisterOrder
              /\ (Done(p) /\ steps[p] = RegisterOrder /\ ~Succeeded(p))
                 => result[p].err = ErrDuration
        /\ IsLogin(p)
           => /\ IsPrefix(steps[p], LoginOrder)
              /\ lookup[p] # NoErr => steps[p] = <<"FindByEmail">>
              /\ (Done(p) /\ result[p].err = ErrInvalidCredentials)
                 => Len(steps[p]) <= 2
              /\ Succeeded(p) => steps[p] = LoginOrder
              /\ (Done(p) /\ steps[p] = LoginOrder /\ ~Succeeded(p))
                 => result[p].err = ErrDuration
        /\ (req[p] # Nil /\ ~req[p].valid) => steps[p] = <<>>

\* C18 witness: a Register call stopped at a failed Create, with no token
\* issued, and a Login call went through all three steps
C18_Witness ==
    \E p, q \in Procs :
        /\ IsRegister(p) /\ Done(p) /\ result[p].err = ErrStore
        /\ steps[p] = <<"FindByEmail", "GenerateFromPassword", "Create">>
        /\ IsLogin(q) /\ Succeeded(q) /\ steps[q] = LoginOrder

\* the issued token was presented to ValidateToken
IssuedPresented ==
    /\ codec.minted # Nil /\ codec.check # Nil
    /\ codec.check.token = <<Wire(codec.minted.out.token)>>

C15_AcceptedIffSignedAndFresh ==
    codec.check # Nil
    => /\ IssuedPresented
          => /\ codec.check.out.err = NoErr
                <=> /\ codec.check.secret = codec.minted.secret
                    /\ codec.check.at < codec.minted.at + codec.minted.ttl
             /\ codec.check.secret # codec.minted.secret
                => codec.check.out.err = ErrTokenSignature
             /\ (/\ codec.check.secret = codec.minted.secret
                 /\ codec.check.at >= codec.minted.at + codec.minted.ttl)
                => codec.check.out.err = ErrTokenExpired
       /\ ~IssuedPresented => codec.check.out.err = ErrTokenMalformed
       /\ codec.check.out.err # NoErr => codec.check.out.claims = Nil
       /\ codec.expiredAt # NoTime
          => /\ codec.check.at >= codec.expiredAt
             /\ codec.check.out.err # NoErr

\* C15 witness: a token with ttl 1 was verified exactly at its expiry with the
\* issuing secret and failed as expired, after an earlier time at which it was
\* not yet expired
C15_Witness ==
    /\ IssuedPresented
    /\ codec.minted.ttl = 1
    /\ codec.check.secret = codec.minted.secret
    /\ codec.check.at = codec.minted.at + codec.minted.ttl
    /\ codec.check.out.err = ErrTokenExpired
    /\ codec.expiredAt = codec.check.at

\* request r carried, as "Bearer <token>", the token call p returned
IssuedTo(r, p) ==
    /\ gate[r] # Nil
    /\ Succeeded(p)
    /\ gate[r].header = <<W("Bearer"), Sp, Wire(result[p].resp.Token)>>

\* request r was let through with the ID and email call p returned for its user
AcceptedAs(r, p) ==
    /\ ~gate[r].aborted
    /\ gate[r].verr = NoErr
    /\ DOMAIN gate[r].keys = {"user_id", "user_email"}
    /\ gate[r].keys["user_id"] = Box(result[p].resp.User.ID)
    /\ gate[r].keys["user_email"] = Box(result[p].resp.User.Email)
    /\ GetUserID(gate[r]) = <<result[p].resp.User.ID, TRUE>>

\* C16: a token returned by a successful Register or Login and presented as
\* "Bearer <token>" before its expiry is accepted by AuthMiddleware, and the
\* identity set on the context is the ID and email of the user it was issued
\* for.
C16_IssuedTokenAccepted ==
    \A r \in Reqs, p \in Procs :
        (IssuedTo(r, p) /\ gate[r].at < result[p].resp.Token.ExpiresAt)
        => AcceptedAs(r, p)

\* C16 witness: the token of a Register call was presented at a later time,
\* still before its expiry, and accepted as the new user
C16_Witness ==
    \E r \in Reqs, p \in Procs :
        /\ IsRegister(p) /\ IssuedTo(r, p)
        /\ gate[r].at > result[p].resp.Token.IssuedAt
        /\ gate[r].at < result[p].resp.Token.ExpiresAt
        /\ AcceptedAs(r, p)
        /\ result[p].resp.User.Email = req[p].Email

\* the last user call succeeded on the user of call p's token, before request
\* r was received
ChangedBefore(r, p) ==
    /\ ures # Nil
    /\ ures.err = NoErr
    /\ ures.id = result[p].resp.User.ID
    /\ r \in ures.before

\* no row of the table that is not deleted has the ID and email of the token
\* call p returned
GoneFromStore(p) ==
    ~\E u \in Live(store) :
        /\ u.ID = result[p].resp.User.ID
        /\ u.Email = result[p].resp.User.Email

\* C17: a token presented before its expiry is accepted with the ID and email
\* recorded at issuance also after its user was deleted or given another
\* email, and two requests with the same header seen at the same time get the
\* same outcome whatever the table held.
C17_NoRevocation ==
    /\ \A r \in Reqs, p \in Procs :
         (/\ IssuedTo(r, p)
          /\ gate[r].at < result[p].resp.Token.ExpiresAt
          /\ ChangedBefore(r, p))
         => AcceptedAs(r, p)
    /\ \A r, q \in Reqs :
         (/\ gate[r] # Nil /\ gate[q] # Nil
          /\ gate[r].header = gate[q].header /\ gate[r].at = gate[q].at)
         => /\ gate[r].aborted = gate[q].aborted
            /\ gate[r].keys = gate[q].keys
            /\ gate[r].verr = gate[q].verr

\* C17 witness: the user of a token was deleted, and a request received after
\* that with the token was accepted as that user
C17_Witness ==
    \E r \in Reqs, p \in Procs :
        /\ IssuedTo(r, p)
        /\ ChangedBefore(r, p) /\ ures.op = "Delete"
        /\ GoneFromStore(p)
        /\ AcceptedAs(r, p)

\* the same after an Update that changed the user's email
C17_UpdateCase ==
    \E r \in Reqs, p \in Procs :
        /\ IssuedTo(r, p)
        /\ ChangedBefore(r, p) /\ ures.op = "Update"
        /\ GoneFromStore(p)
        /\ AcceptedAs(r, p)

\* the value a Config field has when it was taken from environment value v
FromEnv(k, v) == Cast(k, v)

\* C20: after config.Load, for each of APP_PORT, DB_HOST, DB_PORT, DB_USER,
\* DB_PASSWORD, DB_NAME, JWT_SECRET, JWT_EXPIRATION and LOG_LEVEL that is set
\* to a non-empty value, the corresponding Config field has that value,
\* whatever the config file and the defaults say.
C20_EnvOverrides ==
    (config # Nil /\ config.loaded # Nil)
    => \A n \in EnvNames :
          config.env[n] # <<>>
          => config.loaded[FieldKey(n)] = FromEnv(FieldKey(n), config.env[n])

\* the seven variables Load asks for by name do override file and default
C20_SevenOverride ==
    (config # Nil /\ config.loaded # Nil)
    => \A n \in OverrideNames :
          config.env[n] # <<>>
          => config.loaded[FieldKey(n)] = FromEnv(FieldKey(n), config.env[n])

\* the step is a call of the user service's (or Login's) operation op
Calls(op) == ures' # Nil /\ ures'.op = op

\* the live records of table s with the given ID, with the given email
LiveByID(s, id) == {r \in Live(s) : r.ID = id}
LiveByEmail(s, email) == {r \in Live(s) : r.Email = email}

\* C21: after an Update that returns success with a non-empty email no other
\* live record has that email; an Update of a live user to the email of
\* another live user fails with "email already exists" and leaves the table
\* unchanged; an Update to the user's own email succeeds; all this also when
\* the FindByEmail lookup inside Update fails with a database error.
C21_UpdateKeepsEmailUnique ==
    [][(Calls("Update") /\ ures'.email # "" /\ ures'.faulted \subseteq {"FindByEmail"})
       => /\ ures'.err = NoErr
             => \A r \in LiveByEmail(store', ures'.email) : r.ID = ures'.id
          /\ (/\ LiveByID(store, ures'.id) # {}
              /\ \E r \in LiveByEmail(store, ures'.email) : r.ID # ures'.id)
             => ures'.err = ErrEmailExists /\ store' = store
          /\ (/\ LiveByID(store, ures'.id) # {}
              /\ LiveByEmail(store, ures'.email) = LiveByID(store, ures'.id))
             => ures'.err = NoErr]_vars

\* the step is a Login that follows a successful Create of the same email
LoginAfterCreate ==
    /\ Calls("Login")
    /\ ures # Nil /\ ures.op = "Create" /\ ures.err = NoErr
    /\ ures'.email = ures.email

\* what C22 says of a step; answered is whether the step's database calls
\* were all answered
C22_Step(answered) ==
    /\ (LoginAfterCreate /\ answered)
       => /\ ures'.password = ures.password
             => /\ ures'.err = NoErr
                /\ ures'.resp.Token.UserID = ures.resp.ID
                /\ ures'.resp.User.ID = ures.resp.ID
          /\ ures'.password # ures.password
             => ures'.err = ErrInvalidCredentials
    /\ (Calls("Create") /\ answered /\ LiveByEmail(store, ures'.email) # {})
       => ures'.err = ErrEmailExists /\ store' = store /\ nextID' = nextID

Dead(s) == s \ Live(s)

\* what C23 says of a step; answered is whether the step's database calls
\* were all answered, vacant whether the email of a Login is free again
C23_Step(answered, vacant) ==
    /\ (Calls("Delete") /\ answered /\ LiveByID(store, ures'.id) = {})
       => ures'.err = ErrUserNotFound /\ store' = store
    /\ ((Calls("GetByID") \/ Calls("Delete")) /\ answered
        /\ \E u \in Dead(store) : u.ID = ures'.id)
       => ures'.err = ErrUserNotFound /\ ures'.resp = Nil /\ store' = store
    /\ (/\ Calls("Login") /\ answered /\ vacant
        /\ \E u \in Dead(store) :
              /\ u.Email = ures'.email
              /\ CompareHashAndPassword(u.Password, ures'.password) = NoErr)
       => ures'.err = ErrInvalidCredentials /\ ures'.resp = Nil

\* C23 as stated: Delete of an ID without a live record fails with "user not
\* found" and leaves the table unchanged; once a user is deleted, GetByID and
\* Delete of its ID fail with "user not found" and Login with its email and
\* password fails with "invalid credentials".
C23_Original == [][C23_Step(TRUE, TRUE)]_vars

\* C23, amended: the same when the database answers the calls made and, for
\* Login, when no live record has taken the deleted user's email; a
\* successful Delete(id) leaves no live record with that ID and changes no
\* other record; a Delete that fails changes nothing.
C23_DeletedIsInvisible ==
    [][/\ C23_Step(ures'.faulted = {}, LiveByEmail(store, ures'.email) = {})
       /\ (Calls("Delete") /\ ures'.err = NoErr)
          => /\ LiveByID(store, ures'.id) # {}
             /\ LiveByID(store', ures'.id) = {}
             /\ \E u \in Dead(store') : u.ID = ures'.id
             /\ {u \in store' : u.ID # ures'.id} = {u \in store : u.ID # ures'.id}
       /\ (Calls("Delete") /\ ures'.err # NoErr) => store' = store]_vars

\* C23 witness: the seeded user was deleted and a Login with her email and
\* password, answered by the database, was refused with "invalid credentials"
C23_Witness ==
    /\ ures # Nil /\ ures.op = "Login" /\ ures.faulted = {}
    /\ ures.err = ErrInvalidCredentials
    /\ LiveByEmail(store, ures.email) = {}
    /\ \E u \in Dead(store) :
          /\ u.Email = ures.email
          /\ CompareHashAndPassword(u.Password, ures.password) = NoErr

\* a deleted user's email was taken by a new user with the same password, and
\* Login with it succeeded
C23_EmailTakenAgain ==
    /\ ures # Nil /\ ures.op = "Login" /\ ures.faulted = {}
    /\ ures.err = NoErr
    /\ \E u \in Dead(store) :
          /\ u.Email = ures.email
          /\ CompareHashAndPassword(u.Password, ures.password) = NoErr

\* the smallest number of pages of perPage records that hold total records
Ceiling(total, perPage) ==
    CHOOSE k \in 0..total : k * perPage >= total /\ (k = 0 \/ (k - 1) * perPage < total)

\* C26 without its sentence on the offset: the page passed on is at least 1
\* (1 when the value is absent, unparsable or below 1), the page size is
\* within 1..100 (10 otherwise), and TotalPages is the ceiling of
\* total / perPage.
C26_ClampAndTotalPages ==
    (ures # Nil /\ ures.op = "GetAll") =>
        /\ ures.page >= 1 /\ ures.perPage \in 1..100
        /\ (ures.query.page = Nil \/ ~ures.query.page.num \/ ures.query.page.n < 1)
           => ures.page = 1
        /\ (ures.query.page # Nil /\ ures.query.page.num
            /\ ures.query.page.n \in 1..MaxInt) => ures.page = ures.query.page.n
        /\ (ures.query.per_page = Nil \/ ~ures.query.per_page.num
            \/ ures.query.per_page.n \notin 1..100) => ures.perPage = 10
        /\ (ures.query.per_page # Nil /\ ures.query.per_page.num
            /\ ures.query.per_page.n \in 1..100)
           => ures.perPage = ures.query.per_page.n
        /\ ures.err = NoErr
           => /\ ures.http.pagination.TotalPages = Ceiling(ures.total, ures.perPage)
              /\ ures.http.pagination.CurrentPage = ures.page
              /\ ures.http.pagination.PerPage = ures.perPage

\* C26: for every page and per_page query value UserHandler.GetAll passes on a
\* page >= 1 and a perPage within 1..100, the offset (page-1)*perPage given to
\* the repository is never negative, and TotalPages is the ceiling of
\* total / perPage.
C26_PageOffsetTotalPages ==
    (ures # Nil /\ ures.op = "GetAll") =>
        /\ ures.page >= 1 /\ ures.perPage \in 1..100
        /\ ures.offset >= 0
        /\ ures.err = NoErr
           => ures.http.pagination.TotalPages = Ceiling(ures.total, ures.perPage)

\* a request for the last page an int can number was answered with the first
\* records of the table: the offset wrapped around below zero
C26_NegativeOffset ==
    /\ ures # Nil /\ ures.op = "GetAll" /\ ures.err = NoErr
    /\ ures.query.page = Digits(MaxInt) /\ ures.query.per_page = Nil
    /\ ures.offset = -20
    /\ Len(ures.resp) = 2

\* the fields of a user and of a credential answer as the service returns them
UserFields == {"ID", "Email", "Name"}
IsUserResponse(v) == DOMAIN v = UserFields /\ v.Email \notin Passwords
                     /\ v.Name \notin Passwords
IsAuthResponse(v) ==
    /\ DOMAIN v = {"User", "Token"}
    /\ IsUserResponse(v.User)
    /\ DOMAIN v.Token = {"UserID", "Email", "IssuedAt", "ExpiresAt", "key"}
    /\ v.Token.Email \notin Passwords

\* C24: every record written by Register or UserService.Create holds in
\* Password the bcrypt hash of the submitted password, never the plaintext,
\* and no later operation changes it; no value returned by Register, Login,
\* Create, GetByID, GetAll or Update contains the password or its hash.
C24_PasswordOnlyHashed ==
    [][/\ (Calls("Create") \/ Calls("Register")) =>
            \A u \in store' \ store :
                /\ u.Password = Bcrypt(ures'.password, u.Password.salt)
                /\ u.Password.digest # <<ures'.password>>
                /\ CompareHashAndPassword(u.Password, ures'.password) = NoErr
       /\ ((Calls("Create") \/ Calls("Register")) /\ ures'.err = NoErr) =>
            \E u \in store' \ store : u.Email = ures'.email
       /\ \A v \in store : \A u \in store' : u.ID = v.ID => u.Password = v.Password
       /\ ures' # Nil =>
            /\ ures'.err \notin Passwords
            /\ (ures'.err # NoErr) => ures'.resp = Nil
            /\ (ures'.op \in {"Create", "GetByID", "Update"} /\ ures'.err = NoErr)
               => IsUserResponse(ures'.resp)
            /\ (ures'.op \in {"Register", "Login"} /\ ures'.err = NoErr)
               => IsAuthResponse(ures'.resp)
            /\ (ures'.op = "GetAll" /\ ures'.err = NoErr)
               => \A i \in DOMAIN ures'.resp : IsUserResponse(ures'.resp[i])
            /\ (ures'.op = "Delete") => ures'.resp = Nil]_vars

\* C24 witness: a user registered with a password, stored under its hash, was
\* listed without it
C24_Witness ==
    /\ ures # Nil /\ ures.op = "GetAll" /\ ures.err = NoErr
    /\ \E i \in DOMAIN ures.resp : \E u \in Live(store) :
          /\ u.ID = 2 /\ ures.resp[i] = UserResponse(u)
          /\ u.Password = Bcrypt("secret2", "salt2")

\* the text of header h before its first space: all of h when it has none
SchemeOf(h) ==
    SubSeq(h, 1, CHOOSE k \in 0..Len(h) :
                     /\ \A j \in 1..k : h[j] # Sp
                     /\ (k = Len(h) \/ h[k + 1] = Sp))

\* C25: AuthMiddleware splits the header at its first space only and compares
\* the scheme exactly with "Bearer": a header without a space or with another
\* scheme spelling is rejected with "Invalid authorization header format"
\* without verification; "Bearer " with an empty token passes the shape check
\* and is rejected at verification with "Invalid or expired token"; all that
\* follows the first space, further spaces included, is the token verified.
C25_SplitAtFirstSpace ==
    \A r \in Reqs :
        gate[r] # Nil =>
            LET h == gate[r].header
            IN  /\ (h # <<>> /\ (SchemeOf(h) = h \/ SchemeOf(h) # <<W("Bearer")>>))
                   => /\ gate[r].aborted
                      /\ gate[r].resp = Unauthorized("Invalid authorization header format")
                      /\ gate[r].verified = <<>>
                /\ (h # <<>> /\ SchemeOf(h) # h /\ SchemeOf(h) = <<W("Bearer")>>)
                   => gate[r].verified = <<SubSeq(h, Len(SchemeOf(h)) + 2, Len(h))>>
                /\ h = <<W("Bearer"), Sp>>
                   => /\ gate[r].aborted
                      /\ gate[r].verified = <<(<<>>)>>
                      /\ gate[r].resp = Unauthorized("Invalid or expired token")

\* C25 witness: "Bearer " with nothing after it was refused at verification,
\* and of "Bearer  <token>" the space and the token were verified together
C25_Witness ==
    \E r, q \in Reqs :
        /\ gate[r] # Nil /\ gate[r].header = <<W("Bearer"), Sp>>
        /\ gate[r].resp = Unauthorized("Invalid or expired token")
        /\ gate[q] # Nil /\ gate[q].header = <<W("Bearer"), Sp, Sp, Wire(AToken)>>
        /\ gate[q].verified = <<(<<Sp, Wire(AToken)>>)>>
        /\ gate[q].aborted

====
